---- MODULE Spec2Model ----
(***************************************************************************)
(* Model of api/polymarket.js (the current handler, lines 313-734 of      *)
(* src/api/polymarket.js): one invocation of the serverless handler, its  *)
(* two upstream calls (Gamma event fetch, CLOB best bid/ask) and the       *)
(* outcome-normalisation functions it applies in between.                  *)
(*                                                                         *)
(* Numbers.  Prices are JavaScript doubles in the code.  Here a price is   *)
(* an integer number of millionths (One = 1.0), two decimals finer than    *)
(* the 4 decimals the response is rounded to, so that rounding is a real   *)
(* operation of the model.  x * 0.98 is (x * 98) \div 100; the input sets  *)
(* hold multiples of 50 millionths (or values below the rounding step),   *)
(* for which the product is exact.                                         *)
(*                                                                         *)
(* JavaScript values.  A decoded JSON value is a record [k, v]: k is the   *)
(* kind ("list", "null", "scalar", "string"), v its elements.  A price    *)
(* entry is [k |-> "num", v |-> n] (a number or a numeric string, which    *)
(* parseFloat turns into the same number) or [k |-> "nan"] (anything       *)
(* toNumber cannot read: a non-numeric string, Infinity, an object) or     *)
(* [k |-> "undef"] (an index past the end).  A token id is a string, Null  *)
(* standing for null/undefined.  A label is the sequence of its            *)
(* characters, so that trim() and toLowerCase() act on it.                 *)
(***************************************************************************)
EXTENDS Integers, Sequences, FiniteSets, TLC

VARIABLES
    pc,              \* position of the invocation: idle, gamma, clob, done
    req,             \* the request: method, type, slug, tokenId, outcomeIndex, side
    gamma,           \* what the event-metadata call returned
    markets,         \* eventData.markets as the handler reads it
    model,           \* the shape tag
    outcomes,        \* the built outcome list
    resolvedTokenId, \* fetchPrices: the token whose book is queried
    resolvedIndex,   \* fetchPrices: the resolved outcome index, or NoIndex
    fallbackMid,     \* fetchPrices: the mid-price taken from the outcome
    book,            \* what the order-book call returned
    res,             \* the response sent, or NoResponse
    gammaCalls,      \* event-metadata calls issued by this invocation
    clobCalls,       \* order-book calls issued by this invocation
    timer            \* the deadline timer: none, pending, fired, cleared

vars == <<pc, req, gamma, markets, model, outcomes, resolvedTokenId,
          resolvedIndex, fallbackMid, book, res, gammaCalls, clobCalls, timer>>

---------------------------------------------------------------------------
(* Bounds of the input sets *)

\* longest outcome-label / price / token list of a Market (builder inputs)
MaxLen == 3
\* most Markets in one event (builder inputs)
MaxMarkets == 2

---------------------------------------------------------------------------
(* Constants of the program, in millionths *)

One == 1000000
Half == 500000
\* noPrice: null / resolvedIndex = null
NullPrice == -1
NoIndex == -1
Null == "<null>"

---------------------------------------------------------------------------
(* Utilities *)

Min(a, b) == IF a < b THEN a ELSE b
Max(a, b) == IF a > b THEN a ELSE b

\* mutant: no clamping
clampIdentity(n, min, max) == n

clamp(n, min, max) == Min(Max(n, min), max)

Num(n) == [k |-> "num", v |-> n]
NaN == [k |-> "nan", v |-> 0]
Undefined == [k |-> "undef", v |-> 0]

\* mutant: the fallback of the call is dropped for the default one, 0
toNumberDefaultZero(x, fallback) == IF x.k = "num" THEN x.v ELSE 0

\* typeof x === 'number' ? x : parseFloat(x); finite ? n : fallback
toNumber(x, fallback) == IF x.k = "num" THEN x.v ELSE fallback

\* x * 0.98
Mul098(x) == (x * 98) \div 100

\* Number(x.toFixed(4)): to the nearest 100 millionths
toFixed4(x) == ((x + 50) \div 100) * 100

\* Number(((ask - bid) * 100).toFixed(2)): in hundredths of a point
toFixed2Spread(ask, bid) == IF ask >= bid THEN (ask - bid + 50) \div 100
                            ELSE 0 - ((bid - ask + 50) \div 100)

\* list[i] with a JavaScript (0-based) index: undefined past the end
At(list, i, undef) == IF i >= 0 /\ i < Len(list) THEN list[i + 1] ELSE undef

\* the decoded values
List(s) == [k |-> "list", v |-> s]
JsNull == [k |-> "null", v |-> <<>>]
JsScalar == [k |-> "scalar", v |-> <<>>]
JsString(s) == [k |-> "string", v |-> s]
IsArray(d) == d.k = "list"

\* a raw field of a Market as Gamma sends it.  Absent: null, undefined, or a value
\* that is neither a list nor a string (lines 401 and 403 return the fallback alike);
\* the others but NativeArray are strings: not JSON, the JSON texts null, 5 and
\* "ab", and a JSON list
Absent == [k |-> "absent", v |-> <<>>]
BadJson == [k |-> "badjson", v |-> <<>>]
JsonNull == [k |-> "jsonnull", v |-> <<>>]
JsonScalar == [k |-> "jsonscalar", v |-> <<>>]
JsonString == [k |-> "jsonstring", v |-> <<"a", "b">>]
NativeArray(s) == [k |-> "array", v |-> s]
JsonArray(s) == [k |-> "json", v |-> s]

\* JSON.parse of a string that parses: a list, null, a string or a number
JsonParse(value) ==
    CASE value.k = "json" -> List(value.v)
      [] value.k = "jsonnull" -> JsNull
      [] value.k = "jsonstring" -> JsString(value.v)
      [] OTHER -> JsScalar

parseMaybeJson(value, fallback) ==
    CASE value.k = "absent" -> fallback
      [] value.k = "array" -> List(value.v)
      [] value.k = "badjson" -> fallback
      [] OTHER -> JsonParse(value)

\* String.prototype.trim and toLowerCase on a sequence of characters
RECURSIVE TrimLeft(_)
TrimLeft(s) == IF s # <<>> /\ Head(s) = " " THEN TrimLeft(Tail(s)) ELSE s

RECURSIVE TrimRight(_)
TrimRight(s) ==
    IF s # <<>> /\ s[Len(s)] = " " THEN TrimRight(SubSeq(s, 1, Len(s) - 1)) ELSE s

LowerChar(c) ==
    CASE c = "Y" -> "y" [] c = "E" -> "e" [] c = "S" -> "s"
      [] c = "N" -> "n" [] c = "O" -> "o" [] c = "M" -> "m"
      [] c = "A" -> "a" [] c = "B" -> "b"
      [] OTHER -> c

\* mutant: lower-cased but not trimmed
normOutcomeLabelNoTrim(x) == [i \in 1..Len(x) |-> LowerChar(x[i])]

normOutcomeLabel(x) ==
    LET t == TrimRight(TrimLeft(x)) IN [i \in 1..Len(t) |-> LowerChar(t[i])]

\* Array.prototype.findIndex: the first 0-based position, or -1
RECURSIVE FindFrom(_, _, _)
FindFrom(s, x, i) ==
    IF i > Len(s) THEN 0 - 1
    ELSE IF s[i] = x THEN i - 1 ELSE FindFrom(s, x, i + 1)

findYesNoIndexes(decoded) ==
    LET outs == IF IsArray(decoded)
                THEN [i \in 1..Len(decoded.v) |-> normOutcomeLabel(decoded.v[i])]
                ELSE <<>>
    IN [yesIdx |-> FindFrom(outs, <<"y", "e", "s">>, 1),
        noIdx |-> FindFrom(outs, <<"n", "o">>, 1)]

normalizeMarketArrays(market) ==
    [outcomes |-> parseMaybeJson(market.outcomes, JsNull),
     outcomePrices |-> parseMaybeJson(market.outcomePrices, List(<<>>)),
     clobTokenIds |-> parseMaybeJson(market.clobTokenIds, List(<<>>))]

\* mutant: two outcomes already count as multi-outcome
isMultiOutcomeFromTwo(ms) ==
    IF Len(ms) # 1 THEN FALSE
    ELSE LET n == normalizeMarketArrays(ms[1])
         IN /\ IsArray(n.outcomes)
            /\ Len(n.outcomes.v) >= 2
            /\ IsArray(n.clobTokenIds)
            /\ Len(n.clobTokenIds.v) = Len(n.outcomes.v)

isMultiOutcomeSingleMarket(ms) ==
    IF Len(ms) # 1 THEN FALSE
    ELSE LET n == normalizeMarketArrays(ms[1])
         IN /\ IsArray(n.outcomes)
            /\ Len(n.outcomes.v) > 2
            /\ IsArray(n.clobTokenIds)
            /\ Len(n.clobTokenIds.v) = Len(n.outcomes.v)

---------------------------------------------------------------------------
(* Outcome builders *)

\* index + 1 as the text of a synthetic name, `Market ${idx + 1}`
Digit(n) == CASE n = 1 -> "1" [] n = 2 -> "2" [] n = 3 -> "3" [] OTHER -> "4"

SyntheticName(idx) == <<"M", "a", "r", "k", "e", "t", " ", Digit(idx + 1)>>

\* tokenId != null ? String(tokenId) : null
TokenString(t) == IF t # Null THEN t ELSE Null

\* one element of outcomes.map in buildOutcomesFromSingleMultiMarket
MultiOutcome(n, i) ==
    LET tokenId == IF IsArray(n.clobTokenIds) THEN At(n.clobTokenIds.v, i, Null) ELSE Null
        price == IF IsArray(n.outcomePrices)
                 THEN toNumber(At(n.outcomePrices.v, i, Undefined), Half)
                 ELSE Half
    IN [index |-> i,
        name |-> n.outcomes.v[i + 1],
        tokenId |-> TokenString(tokenId),
        yesTokenId |-> TokenString(tokenId),
        noTokenId |-> Null,
        yesPrice |-> clamp(price, 0, One),
        noPrice |-> NullPrice,
        kind |-> "multi-outcome"]

\* mutant: a label whose token id is missing yields no outcome
HasTokenId(o) == o.tokenId # Null
buildOutcomesFromSingleMultiMarketTokensOnly(market) ==
    LET n == normalizeMarketArrays(market)
    IN IF ~IsArray(n.outcomes) \/ Len(n.outcomes.v) = 0 THEN <<>>
       ELSE SelectSeq([j \in 1..Len(n.outcomes.v) |-> MultiOutcome(n, j - 1)], HasTokenId)

buildOutcomesFromSingleMultiMarket(market) ==
    LET n == normalizeMarketArrays(market)
    IN IF ~IsArray(n.outcomes) \/ Len(n.outcomes.v) = 0 THEN <<>>
       ELSE [j \in 1..Len(n.outcomes.v) |-> MultiOutcome(n, j - 1)]

\* outcomePrices.length >= 2, for a value that is not null: a list and a string
\* have a length, a number has none
LengthAtLeast2(d) == d.k \in {"list", "string"} /\ Len(d.v) >= 2

\* outcomePrices.length on null: the TypeError that ends markets.map
OptionThrows(m) == normalizeMarketArrays(m).outcomePrices.k = "null"

\* one element of markets.map in buildOutcomesFromMarketsAsOptions
OptionOutcome(m, idx) ==
    LET n == normalizeMarketArrays(m)
        found == findYesNoIndexes(n.outcomes)
        fallbackYesIdx == 0
        fallbackNoIdx == IF LengthAtLeast2(n.outcomePrices) THEN 1 ELSE NoIndex
        resolvedYesIdx == IF found.yesIdx >= 0 THEN found.yesIdx ELSE fallbackYesIdx
        resolvedNoIdx == IF found.noIdx >= 0 THEN found.noIdx ELSE fallbackNoIdx
        yesPrice == IF IsArray(n.outcomePrices) /\ Len(n.outcomePrices.v) > resolvedYesIdx
                    THEN toNumber(n.outcomePrices.v[resolvedYesIdx + 1], Half)
                    ELSE Half
        noPrice == IF /\ resolvedNoIdx # NoIndex
                      /\ IsArray(n.outcomePrices)
                      /\ Len(n.outcomePrices.v) > resolvedNoIdx
                   THEN toNumber(n.outcomePrices.v[resolvedNoIdx + 1], Half)
                   ELSE clamp(One - yesPrice, 0, One)
        yesTokenId == IF IsArray(n.clobTokenIds) /\ Len(n.clobTokenIds.v) > resolvedYesIdx
                      THEN n.clobTokenIds.v[resolvedYesIdx + 1]
                      ELSE Null
        noTokenId == IF /\ resolvedNoIdx # NoIndex
                        /\ IsArray(n.clobTokenIds)
                        /\ Len(n.clobTokenIds.v) > resolvedNoIdx
                     THEN n.clobTokenIds.v[resolvedNoIdx + 1]
                     ELSE Null
    IN [index |-> idx,
        name |-> IF m.question # <<>> THEN m.question ELSE SyntheticName(idx),
        tokenId |-> TokenString(yesTokenId),
        yesTokenId |-> TokenString(yesTokenId),
        noTokenId |-> TokenString(noTokenId),
        yesPrice |-> clamp(yesPrice, 0, One),
        noPrice |-> clamp(noPrice, 0, One),
        kind |-> "binary",
        resolvedYesIdx |-> resolvedYesIdx,
        resolvedNoIdx |-> resolvedNoIdx]

\* mutant: an event with a Market whose labels name no yes and no no yields no outcome
buildOutcomesFromMarketsAsOptionsStrict(ms) ==
    IF \E j \in 1..Len(ms) : OptionThrows(ms[j])
    THEN [threw |-> TRUE, v |-> <<>>]
    ELSE IF \E j \in 1..Len(ms) :
                LET found == findYesNoIndexes(normalizeMarketArrays(ms[j]).outcomes)
                IN found.yesIdx < 0 \/ found.noIdx < 0
         THEN [threw |-> FALSE, v |-> <<>>]
         ELSE [threw |-> FALSE, v |-> [j \in 1..Len(ms) |-> OptionOutcome(ms[j], j - 1)]]

\* threw: markets.map ended by a TypeError; v: the list it returned otherwise
buildOutcomesFromMarketsAsOptions(ms) ==
    IF \E j \in 1..Len(ms) : OptionThrows(ms[j])
    THEN [threw |-> TRUE, v |-> <<>>]
    ELSE [threw |-> FALSE, v |-> [j \in 1..Len(ms) |-> OptionOutcome(ms[j], j - 1)]]

\* isMultiOutcomeSingleMarket(markets) ? 'single-market-multi-outcome' : 'market-per-option'
ShapeOf(ms) ==
    IF isMultiOutcomeSingleMarket(ms) THEN "single-market-multi-outcome"
    ELSE "market-per-option"

\* model === 'single-market-multi-outcome' ? buildOutcomesFromSingleMultiMarket(markets[0])
\*                                         : buildOutcomesFromMarketsAsOptions(markets)
BuildOutcomes(ms) ==
    IF ShapeOf(ms) = "single-market-multi-outcome"
    THEN [threw |-> FALSE, v |-> buildOutcomesFromSingleMultiMarket(ms[1])]
    ELSE buildOutcomesFromMarketsAsOptions(ms)

---------------------------------------------------------------------------
(* Price resolution: the synchronous parts of fetchPrices *)

\* a JavaScript truthiness test of a token id: null and '' are falsy
Truthy(t) == t # Null /\ t # ""

\* outcomeIndex !== undefined ? parseInt(outcomeIndex, 10) : 0, then
\* Number.isFinite(idx) ? idx : 0
ParsedIndex(outcomeIndex) ==
    IF outcomeIndex.k = "undef" THEN 0
    ELSE IF outcomeIndex.k = "num" THEN outcomeIndex.v ELSE 0

\* String(side || '').toLowerCase()
LowerSide(side) == [i \in 1..Len(side) |-> LowerChar(side[i])]

\* mutant: the side is compared without lower-casing
SideIsNoCaseSensitive(side) == side = <<"n", "o">>

\* s === 'no'
SideIsNo(side) == LowerSide(side) = <<"n", "o">>

\* mutant: clamped to outcomes.length instead of outcomes.length - 1
SafeIndexOffByOne(outcomeIndex, n) == clamp(ParsedIndex(outcomeIndex), 0, n)

\* line 636: clamp(Number.isFinite(idx) ? idx : 0, 0, outcomes.length - 1)
SafeIndex(outcomeIndex, n) == clamp(ParsedIndex(outcomeIndex), 0, n - 1)

\* mutant: only the primary token id of an outcome is compared
RECURSIVE FindOutcomePrimaryOnly(_, _, _)
FindOutcomePrimaryOnly(outs, t, i) ==
    IF i > Len(outs) THEN 0 - 1
    ELSE IF outs[i].tokenId # Null /\ outs[i].tokenId = t
         THEN i - 1
         ELSE FindOutcomePrimaryOnly(outs, t, i + 1)

\* the first outcome one of whose token ids is t, or -1
RECURSIVE FindOutcome(_, _, _)
FindOutcome(outs, t, i) ==
    IF i > Len(outs) THEN 0 - 1
    ELSE IF \/ (outs[i].tokenId # Null /\ outs[i].tokenId = t)
            \/ (outs[i].yesTokenId # Null /\ outs[i].yesTokenId = t)
            \/ (outs[i].noTokenId # Null /\ outs[i].noTokenId = t)
         THEN i - 1
         ELSE FindOutcome(outs, t, i + 1)

\* lines 631-657: the resolved token and index
Resolve(r, outs) ==
    LET given == IF r.tokenId # Null THEN r.tokenId ELSE Null
    IN IF ~Truthy(given)
       THEN LET safeIndex == SafeIndex(r.outcomeIndex, Len(outs))
                has == safeIndex >= 0 /\ safeIndex < Len(outs)
                o == outs[safeIndex + 1]
            IN [index |-> safeIndex,
                token |-> IF has /\ SideIsNo(r.side) /\ Truthy(o.noTokenId)
                          THEN o.noTokenId
                          ELSE IF has /\ Truthy(o.yesTokenId) THEN o.yesTokenId
                          ELSE IF has /\ Truthy(o.tokenId) THEN o.tokenId
                          ELSE Null]
       ELSE LET found == FindOutcome(outs, given, 1)
            IN [index |-> IF found >= 0 THEN found ELSE NoIndex,
                token |-> given]

\* lines 660-668: the fallback mid-price of the selected outcome
FallbackMid(r, outs, index) ==
    IF index # NoIndex /\ index >= 0 /\ index < Len(outs)
    THEN LET selected == outs[index + 1]
         IN IF SideIsNo(r.side) /\ selected.noPrice # NullPrice
            THEN clamp(selected.noPrice, 0, One)
            ELSE clamp(selected.yesPrice, 0, One)
    ELSE Half

\* fetchClobBest: a finite number or null, for one field of the body
BestOf(x) == IF x.k = "num" THEN x ELSE NaN

\* mutant: a book of two zeros is taken as a quote
NoBookKeepingZeros(bid, ask) ==
    \/ bid.k # "num"
    \/ ask.k # "num"

\* line 687: no usable book
NoBook(bid, ask) ==
    \/ bid.k # "num"
    \/ ask.k # "num"
    \/ (bid.v = 0 /\ ask.v = 0)

\* lines 687-694: the bid and ask before rounding
Quote(bid, ask, mid) ==
    LET ask1 == IF NoBook(bid, ask) THEN mid ELSE ask.v
        bid1 == IF NoBook(bid, ask) THEN clamp(Mul098(mid), 0, One) ELSE bid.v
        bid2 == clamp(bid1, 0, One)
        ask2 == clamp(ask1, 0, One)
    IN [bid |-> IF bid2 >= ask2 THEN clamp(Mul098(ask2), 0, One) ELSE bid2,
        ask |-> ask2]

\* mutant: the volume of the first Market, whatever the shape and the index
PriceVolumeFirstMarket(ms, shape, index) == toNumber(ms[1].volume, 0)

\* lines 697-702
PriceVolume(ms, shape, index) ==
    IF shape = "single-market-multi-outcome" THEN toNumber(ms[1].volume, 0)
    ELSE IF index # NoIndex /\ index >= 0 /\ index < Len(ms)
         THEN toNumber(ms[index + 1].volume, 0)
         ELSE 0

\* markets.reduce((acc, m) => acc + toNumber(m?.volume, 0), 0)
RECURSIVE TotalVolume(_)
TotalVolume(ms) ==
    IF ms = <<>> THEN 0 ELSE toNumber(Head(ms).volume, 0) + TotalVolume(Tail(ms))

\* mutant: a later outcome of equal price replaces the earlier one
RECURSIVE BestOutcomeLastOnTies(_, _)
BestOutcomeLastOnTies(outs, prev) ==
    IF outs = <<>> THEN prev
    ELSE BestOutcomeLastOnTies(Tail(outs),
             IF Head(outs).yesPrice >= prev.yesPrice THEN Head(outs) ELSE prev)

\* outcomes.reduce((prev, curr) => curr.yesPrice > prev.yesPrice ? curr : prev, outcomes[0])
RECURSIVE BestOutcome(_, _)
BestOutcome(outs, prev) ==
    IF outs = <<>> THEN prev
    ELSE BestOutcome(Tail(outs), IF Head(outs).yesPrice > prev.yesPrice THEN Head(outs) ELSE prev)

---------------------------------------------------------------------------
(* Inputs *)

Yes == <<"Y", "e", "s">>
No == <<"N", "o">>
NoPadded == <<" ", "N", "O", " ">>
Maybe == <<"M", "a", "y", "b", "e">>

SeqsUpTo(S, n) == UNION {[1..k -> S] : k \in 0..n}

\* builder inputs: every label list up to MaxLen over three spellings
LabelLists == SeqsUpTo({Yes, NoPadded, Maybe}, MaxLen)

\* a list of well-formed prices, different at every position
GoodPrice(i) ==
    CASE i = 1 -> Num(400000) [] i = 2 -> Num(600000) [] i = 3 -> Num(250000)
      [] OTHER -> Num(50000 * i)

\* a list of prices outside [0,1] or unreadable
BadPrice(i) ==
    CASE i = 1 -> Num(0 - 200000) [] i = 2 -> Num(1500000) [] i = 3 -> NaN
      [] OTHER -> Num(0)

PriceLists ==
    {[i \in 1..n |-> GoodPrice(i)] : n \in 0..MaxLen}
        \cup {[i \in 1..n |-> BadPrice(i)] : n \in 1..MaxLen}

Tok(i) == CASE i = 1 -> "t1" [] i = 2 -> "t2" [] i = 3 -> "t3" [] i = 4 -> "t4" [] OTHER -> "t5"

TokenLists ==
    {[i \in 1..n |-> Tok(i)] : n \in 0..MaxLen}
        \cup {[i \in 1..n |-> IF i = 1 THEN Null ELSE Tok(i)] : n \in 1..MaxLen}

Junk == {Absent, BadJson, JsonNull, JsonScalar, JsonString}

\* a field is junk, or its list in the encoding enc ("array" or "json")
Fields(lists, enc) == Junk \cup {[k |-> enc, v |-> l] : l \in lists}

BuildMarkets ==
    UNION {[question : {<<>>}, volume : {NaN},
            outcomes : Fields(LabelLists, enc),
            outcomePrices : Fields(PriceLists, enc),
            clobTokenIds : Fields(TokenLists, enc)] : enc \in {"array", "json"}}

\* the further Markets of a several-Market event
PlainMarkets ==
    {[question |-> <<"Q">>, volume |-> Num(250),
      outcomes |-> NativeArray(<<No, Yes>>),
      outcomePrices |-> NativeArray(<<Num(300000), Num(700000)>>),
      clobTokenIds |-> NativeArray(<<"t3", "t4">>)],
     [question |-> <<>>, volume |-> NaN,
      outcomes |-> Absent,
      outcomePrices |-> JsonArray(<<Num(0), Num(One)>>),
      clobTokenIds |-> JsonArray(<<"t2">>)]}

BuildEvents ==
    {<<m>> \o rest : m \in BuildMarkets, rest \in SeqsUpTo(PlainMarkets, MaxMarkets - 1)}

\* handler inputs: the events Gamma returns to a request (and, in GammaResults,
\* the event whose markets are missing, not a list or empty: <<>>)
ReqMarkets ==
    [question : {<<>>},
     volume : {NaN, Num(100)},
     outcomes : {Absent, NativeArray(<<Yes, No>>), JsonArray(<<No, Yes>>),
                 NativeArray(<<Maybe, Yes, No>>)},
     outcomePrices : {JsonNull, NativeArray(<<>>), JsonArray(<<Num(0), Num(One)>>),
                      NativeArray(<<Num(400000), Num(600000), Num(20)>>),
                      NativeArray(<<Num(0 - 200000), Num(1500000), NaN>>)},
     clobTokenIds : {Absent, NativeArray(<<"t1", "t2">>), JsonArray(<<"t1", "t2", "t3">>)}]

ReqEvents ==
    {<<m>> : m \in ReqMarkets} \cup {<<m, n>> : m \in ReqMarkets, n \in PlainMarkets}

UpstreamStatuses == {404, 429, 503}

\* what the event-metadata call can return
GammaResults ==
    {[k |-> x, status |-> 0, markets |-> <<>>] :
        x \in {"neterr", "badbody", "nonlist", "empty"}}
        \cup {[k |-> "status", status |-> st, markets |-> <<>>] : st \in UpstreamStatuses}
        \cup {[k |-> "events", status |-> 200, markets |-> ev] : ev \in ReqEvents \cup {<<>>}}

BookValues == {NaN, Num(0), Num(450000), Num(550000)}

\* what the order-book call can return
ClobResults ==
    {[k |-> x, status |-> 0, bid |-> NaN, ask |-> NaN] : x \in {"neterr", "badbody"}}
        \cup {[k |-> "status", status |-> st, bid |-> NaN, ask |-> NaN] : st \in {500}}
        \cup {[k |-> "ok", status |-> 200, bid |-> b, ask |-> a] :
                b \in BookValues, a \in BookValues}
        \cup {[k |-> "ok", status |-> 200, bid |-> Num(0 - 100000), ask |-> Num(0)],
              [k |-> "ok", status |-> 200, bid |-> Num(900000), ask |-> Num(1500000)]}

IndexInputs ==
    {Undefined, NaN, Num(0 - 1), Num(1), Num(999)}

SideInputs == {<<>>, <<"N", "O">>, <<"y", "e", "s">>}

TokenInputs == {Null, "", "t2", "tX"}

Requests ==
    [method : {"GET"}, type : {"prices"}, slug : {TRUE},
     tokenId : TokenInputs, outcomeIndex : IndexInputs, side : SideInputs]
        \cup [method : {"GET"}, type : {"market-data", "other"}, slug : {TRUE, FALSE},
              tokenId : {Null}, outcomeIndex : {Undefined}, side : {<<>>}]
        \cup [method : {"OPTIONS", "POST"}, type : {"prices"}, slug : {TRUE},
              tokenId : {Null}, outcomeIndex : {Undefined}, side : {<<>>}]
        \cup [method : {"GET"}, type : {"prices"}, slug : {FALSE},
              tokenId : {Null}, outcomeIndex : {Undefined}, side : {<<>>}]

---------------------------------------------------------------------------
(* The handler *)

NoRequest ==
    [method |-> "", type |-> "", slug |-> FALSE,
     tokenId |-> Null, outcomeIndex |-> Undefined, side |-> <<>>]

NoGamma == [k |-> "none", status |-> 0, markets |-> <<>>]
NoClob == [k |-> "none", status |-> 0, bid |-> NaN, ask |-> NaN]

Response(status, success, kind) ==
    [status |-> status, success |-> success, kind |-> kind,
     bid |-> 0, ask |-> 0, spread |-> 0, volume |-> 0, midPrice |-> 0,
     outcomeIndex |-> NoIndex, tokenId |-> Null, usedClob |-> FALSE]

NoResponse == Response(0, FALSE, "none")

\* mutant: every failure is answered 500
ErrorResponseAlways500(statusCode) == Response(500, FALSE, "error")

\* the catch of handler: err?.statusCode || 500
ErrorResponse(statusCode) ==
    Response(IF statusCode # 0 THEN statusCode ELSE 500, FALSE, "error")

Init ==
    /\ pc = "idle"
    /\ req = NoRequest
    /\ gamma = NoGamma
    /\ markets = <<>>
    /\ model = "none"
    /\ outcomes = <<>>
    /\ resolvedTokenId = Null
    /\ resolvedIndex = NoIndex
    /\ fallbackMid = Half
    /\ book = NoClob
    /\ res = NoResponse
    /\ gammaCalls = 0
    /\ clobCalls = 0
    /\ timer = "none"

\* mutant: no finally { clearTimeout(timeoutId) }, the timer is left as it is
ReplyLeavingTimer(r, t) ==
    /\ pc' = "done"
    /\ res' = r
    /\ timer' = IF t = "cleared" THEN timer ELSE t

\* the invocation ends with response r; fetchMarketData / fetchPrices, if entered,
\* has run its finally { clearTimeout(timeoutId) }
Reply(r, t) ==
    /\ pc' = "done"
    /\ res' = r
    /\ timer' = t

\* line 334: if (req.method === 'OPTIONS') return res.status(200).end()
Options ==
    /\ pc = "idle"
    /\ \E r \in Requests :
          /\ r.method = "OPTIONS"
          /\ req' = r
          /\ Reply(Response(200, TRUE, "end"), "none")
    /\ UNCHANGED <<gamma, markets, model, outcomes, resolvedTokenId, resolvedIndex,
                   fallbackMid, book, gammaCalls, clobCalls>>

\* line 335
MethodNotAllowed ==
    /\ pc = "idle"
    /\ \E r \in Requests :
          /\ r.method \notin {"OPTIONS", "GET"}
          /\ req' = r
          /\ Reply(Response(405, FALSE, "error"), "none")
    /\ UNCHANGED <<gamma, markets, model, outcomes, resolvedTokenId, resolvedIndex,
                   fallbackMid, book, gammaCalls, clobCalls>>

Routed(r) == r.type \in {"market-data", "prices"} /\ r.slug

\* lines 355-366: the status payload
Health ==
    /\ pc = "idle"
    /\ \E r \in Requests :
          /\ r.method = "GET"
          /\ ~Routed(r)
          /\ req' = r
          /\ Reply(Response(200, TRUE, "health"), "none")
    /\ UNCHANGED <<gamma, markets, model, outcomes, resolvedTokenId, resolvedIndex,
                   fallbackMid, book, gammaCalls, clobCalls>>

\* fetchMarketData / fetchPrices up to the await of fetchGammaEventBySlug:
\* withTimeout(10000), then the event-metadata call is in flight
StartFetch ==
    /\ pc = "idle"
    /\ \E r \in Requests :
          /\ r.method = "GET"
          /\ Routed(r)
          /\ req' = r
    /\ pc' = "gamma"
    /\ timer' = "pending"
    /\ gammaCalls' = gammaCalls + 1
    /\ UNCHANGED <<gamma, markets, model, outcomes, resolvedTokenId, resolvedIndex,
                   fallbackMid, book, res, clobCalls>>

\* mutant: an empty result set is not checked for
GammaErrorStatusNoEmptyCheck(g) ==
    CASE g.k = "status" -> g.status
      [] g.k = "nonlist" -> 404
      [] OTHER -> 0

\* the statusCode of the error a failed event fetch throws (0: none)
GammaErrorStatus(g) ==
    CASE g.k = "status" -> g.status
      [] g.k \in {"nonlist", "empty"} -> 404
      [] OTHER -> 0

\* the event fetch fails: fetch rejects, a non-2xx status (fetchJson), a body that
\* is not JSON, not a list or an empty list (fetchGammaEventBySlug)
GammaFails ==
    /\ pc = "gamma"
    /\ \E g \in GammaResults :
          /\ g.k # "events"
          /\ gamma' = g
          /\ Reply(ErrorResponse(GammaErrorStatus(g)), "cleared")
    /\ UNCHANGED <<req, markets, model, outcomes, resolvedTokenId, resolvedIndex,
                   fallbackMid, book, gammaCalls, clobCalls>>

\* mutant: the AbortError of the event fetch escapes the handler, no response is sent
GammaTimeoutEscapes ==
    /\ pc = "gamma"
    /\ timer = "pending"
    /\ gamma' = [k |-> "aborted", status |-> 0, markets |-> <<>>]
    /\ pc' = "done"
    /\ timer' = "fired"
    /\ UNCHANGED <<req, markets, model, outcomes, resolvedTokenId, resolvedIndex,
                   fallbackMid, book, res, gammaCalls, clobCalls>>

\* the deadline passes with the event fetch in flight: controller.abort() makes
\* fetch reject with an AbortError, which carries no statusCode
GammaTimeout ==
    /\ pc = "gamma"
    /\ timer = "pending"
    /\ gamma' = [k |-> "aborted", status |-> 0, markets |-> <<>>]
    /\ Reply(ErrorResponse(0), "fired")
    /\ UNCHANGED <<req, markets, model, outcomes, resolvedTokenId, resolvedIndex,
                   fallbackMid, book, gammaCalls, clobCalls>>

\* fetchMarketData after the event g arrived (lines 571-605)
MarketDataReply(g) ==
    /\ gamma' = g
    /\ markets' = g.markets
    /\ IF Len(g.markets) = 0
       THEN /\ Reply(ErrorResponse(404), "cleared")
            /\ UNCHANGED <<model, outcomes>>
       ELSE LET built == BuildOutcomes(g.markets)
                best == BestOutcome(built.v, built.v[1])
            IN /\ model' = ShapeOf(g.markets)
               /\ outcomes' = built.v
               /\ IF built.threw THEN Reply(ErrorResponse(0), "cleared")
                  ELSE IF Len(built.v) = 0 THEN Reply(ErrorResponse(422), "cleared")
                  ELSE Reply([Response(200, TRUE, "market-data") EXCEPT
                                 !.volume = TotalVolume(g.markets),
                                 !.midPrice = best.yesPrice], "cleared")

\* the event fetch of a market-data request succeeds
MarketData ==
    /\ pc = "gamma"
    /\ req.type = "market-data"
    /\ \E g \in GammaResults :
          /\ g.k = "events"
          /\ MarketDataReply(g)
    /\ UNCHANGED <<req, resolvedTokenId, resolvedIndex, fallbackMid, book,
                   gammaCalls, clobCalls>>

\* lines 686-730: the response of fetchPrices, given what the book call gave
PricesResponse(ms, shape, index, token, mid, b) ==
    LET bid == IF b.k = "ok" THEN BestOf(b.bid) ELSE NaN
        ask == IF b.k = "ok" THEN BestOf(b.ask) ELSE NaN
        q == Quote(bid, ask, mid)
    IN [Response(200, TRUE, "prices") EXCEPT
           !.bid = toFixed4(q.bid),
           !.ask = toFixed4(q.ask),
           !.spread = toFixed2Spread(q.ask, q.bid),
           !.volume = PriceVolume(ms, shape, index),
           !.outcomeIndex = index,
           !.tokenId = token,
           !.usedClob = (b.k = "ok")]

\* fetchPrices after the event arrived, up to the await of fetchClobBest
\* (lines 617-677), or to the end when no token was resolved
PricesResolve ==
    /\ pc = "gamma"
    /\ req.type = "prices"
    /\ \E g \in GammaResults :
          /\ g.k = "events"
          /\ gamma' = g
          /\ markets' = g.markets
          /\ IF Len(g.markets) = 0
             THEN /\ Reply(ErrorResponse(404), "cleared")
                  /\ UNCHANGED <<model, outcomes, resolvedTokenId, resolvedIndex,
                                 fallbackMid, clobCalls>>
             ELSE LET built == BuildOutcomes(g.markets)
                      shape == ShapeOf(g.markets)
                      r == Resolve(req, built.v)
                      mid == FallbackMid(req, built.v, r.index)
                  IN /\ model' = shape
                     /\ outcomes' = built.v
                     /\ IF built.threw
                        THEN /\ Reply(ErrorResponse(0), "cleared")
                             /\ UNCHANGED <<resolvedTokenId, resolvedIndex, fallbackMid,
                                            clobCalls>>
                        ELSE /\ resolvedTokenId' = r.token
                             /\ resolvedIndex' = r.index
                             /\ fallbackMid' = mid
                             /\ IF Truthy(r.token)
                                THEN /\ pc' = "clob"
                                     /\ clobCalls' = clobCalls + 1
                                     /\ UNCHANGED <<res, timer>>
                                ELSE /\ Reply(PricesResponse(g.markets, shape, r.index,
                                                             r.token, mid, NoClob), "cleared")
                                     /\ UNCHANGED clobCalls
    /\ UNCHANGED <<req, book, gammaCalls>>

\* mutant: no catch around fetchClobBest
ClobReplyNoCatch(b) ==
    IF b.k # "ok" THEN ErrorResponse(b.status)
    ELSE PricesResponse(markets, model, resolvedIndex, resolvedTokenId, fallbackMid, b)

\* the response once the order-book call has ended with b: the catch of lines
\* 681-683 swallows a failure and the fallback of line 687 takes over
ClobReply(b) ==
    PricesResponse(markets, model, resolvedIndex, resolvedTokenId, fallbackMid, b)

\* mutant: a failed order-book call is issued once more
ClobReturnsRetry ==
    /\ pc = "clob"
    /\ \E b \in ClobResults :
          /\ book' = b
          /\ IF b.k # "ok" /\ clobCalls < 2
             THEN /\ clobCalls' = clobCalls + 1
                  /\ UNCHANGED <<pc, res, timer>>
             ELSE /\ Reply(ClobReply(b), "cleared")
                  /\ UNCHANGED clobCalls
    /\ UNCHANGED <<req, gamma, markets, model, outcomes, resolvedTokenId, resolvedIndex,
                   fallbackMid, gammaCalls>>

\* the order-book call returns or fails
ClobReturns ==
    /\ pc = "clob"
    /\ \E b \in ClobResults :
          /\ book' = b
          /\ Reply(ClobReply(b), "cleared")
    /\ UNCHANGED <<req, gamma, markets, model, outcomes, resolvedTokenId, resolvedIndex,
                   fallbackMid, gammaCalls, clobCalls>>

\* mutant: the AbortError of the order-book call is not caught
ClobTimeoutUncaught ==
    /\ pc = "clob"
    /\ timer = "pending"
    /\ book' = [k |-> "aborted", status |-> 0, bid |-> NaN, ask |-> NaN]
    /\ Reply(ErrorResponse(0), "fired")
    /\ UNCHANGED <<req, gamma, markets, model, outcomes, resolvedTokenId, resolvedIndex,
                   fallbackMid, gammaCalls, clobCalls>>

\* the deadline passes with the order-book call in flight: the AbortError is caught
ClobTimeout ==
    /\ pc = "clob"
    /\ timer = "pending"
    /\ book' = [k |-> "aborted", status |-> 0, bid |-> NaN, ask |-> NaN]
    /\ Reply(ClobReply(book'), "fired")
    /\ UNCHANGED <<req, gamma, markets, model, outcomes, resolvedTokenId, resolvedIndex,
                   fallbackMid, gammaCalls, clobCalls>>

Next ==
    \/ Options
    \/ MethodNotAllowed
    \/ Health
    \/ StartFetch
    \/ GammaFails
    \/ GammaTimeout
    \/ MarketData
    \/ PricesResolve
    \/ ClobReturns
    \/ ClobTimeout

Spec == Init /\ [][Next]_vars

---------------------------------------------------------------------------
(* The classification and the builders alone, on every event of BuildEvents *)

BuildStep ==
    /\ pc = "idle"
    /\ \E ev \in BuildEvents :
          /\ markets' = ev
          /\ model' = ShapeOf(ev)
          /\ outcomes' = BuildOutcomes(ev).v
          /\ pc' = IF BuildOutcomes(ev).threw THEN "threw" ELSE "built"
    /\ UNCHANGED <<req, gamma, resolvedTokenId, resolvedIndex, fallbackMid, book, res,
                   gammaCalls, clobCalls, timer>>

NextBuild == BuildStep

SpecBuild == Init /\ [][NextBuild]_vars

---------------------------------------------------------------------------
(* fetchMarketData alone, on every event of BuildEvents *)

\* handler routes ?type=market-data&slug=... to fetchMarketData, which starts the
\* deadline and the event fetch
StartMarketData ==
    /\ pc = "idle"
    /\ \E r \in Requests :
          /\ r.method = "GET"
          /\ r.type = "market-data"
          /\ r.slug
          /\ req' = r
    /\ pc' = "gamma"
    /\ timer' = "pending"
    /\ gammaCalls' = gammaCalls + 1
    /\ UNCHANGED <<gamma, markets, model, outcomes, resolvedTokenId, resolvedIndex,
                   fallbackMid, book, res, clobCalls>>

\* the event fetch returns an event of BuildEvents
MarketDataBuild ==
    /\ pc = "gamma"
    /\ req.type = "market-data"
    /\ \E ev \in BuildEvents :
          MarketDataReply([k |-> "events", status |-> 200, markets |-> ev])
    /\ UNCHANGED <<req, resolvedTokenId, resolvedIndex, fallbackMid, book,
                   gammaCalls, clobCalls>>

NextData ==
    \/ StartMarketData
    \/ MarketDataBuild

SpecData == Init /\ [][NextData]_vars

---------------------------------------------------------------------------
(* The claims *)

\* the upstream field holds a list, natively or JSON-encoded
HoldsList(raw) == raw.k \in {"array", "json"}

\* x brought into [0,1]
Unit(x) == IF x < 0 THEN 0 ELSE IF x > One THEN One ELSE x

In01(p) == p >= 0 /\ p <= One

\* the price an upstream entry stands for: its value in [0,1], 0.5 when unreadable
EntryPrice(e) == IF e.k = "num" THEN Unit(e.v) ELSE Half

\* the entry of an upstream list at 1-based position i, or none
TokenAt(raw, i) == IF HoldsList(raw) /\ i <= Len(raw.v) THEN raw.v[i] ELSE Null

PricesDone == pc = "done" /\ res.kind = "prices"

\* C1: in every prices response the returned bid is strictly below the returned
\* ask (after rounding to 4 decimals), whatever the book returned and whatever the
\* outcome's price in [0,1].
C1_BidStrictlyBelowAsk == PricesDone => res.bid < res.ask

\* C2: every returned price lies in [0,1]: the bid and ask of a prices response,
\* and the yes-price and (when present) no-price of every outcome of a
\* market-data response.
C2_PricesInUnitInterval ==
    (pc = "done" /\ res.success) =>
        /\ res.kind = "prices" => In01(res.bid) /\ In01(res.ask)
        /\ res.kind = "market-data" =>
              /\ In01(res.midPrice)
              /\ \A i \in 1..Len(outcomes) :
                    /\ In01(outcomes[i].yesPrice)
                    /\ outcomes[i].noPrice # NullPrice => In01(outcomes[i].noPrice)

\* a market-data response for a Market whose prices are -0.2, 1.5 and unreadable
C2_Witness ==
    /\ pc = "done"
    /\ res.kind = "market-data"
    /\ markets[1].outcomePrices = NativeArray(<<Num(0 - 200000), Num(1500000), NaN>>)
    /\ markets[1].outcomes = Absent
    /\ outcomes[1].yesPrice = 0
    /\ outcomes[1].noPrice = One

\* C3: the shape is single-market-multi-outcome exactly when the event has one
\* Market whose label list has more than 2 entries and whose token-id list has
\* as many; it is market-per-option for every other event, malformed ones included.
C3_ShapeIsTotalAndExact ==
    pc \in {"built", "threw"} =>
        LET multi == /\ Len(markets) = 1
                     /\ HoldsList(markets[1].outcomes)
                     /\ Len(markets[1].outcomes.v) > 2
                     /\ HoldsList(markets[1].clobTokenIds)
                     /\ Len(markets[1].clobTokenIds.v) = Len(markets[1].outcomes.v)
        IN model = IF multi THEN "single-market-multi-outcome" ELSE "market-per-option"

\* one Market with three JSON-encoded labels and three token ids
C3_Witness ==
    /\ pc = "built"
    /\ model = "single-market-multi-outcome"
    /\ markets[1].outcomes.k = "json"
    /\ Len(markets[1].outcomes.v) = 3

\* the index a request's outcomeIndex stands for among n outcomes
ExpectedIndex(x, n) ==
    IF x.k # "num" \/ x.v < 0 THEN 0
    ELSE IF x.v > n - 1 THEN n - 1 ELSE x.v

\* the TypeError of the binary builder: a price field holding the JSON text null
BuilderFails == model = "market-per-option" /\ \E j \in 1..Len(markets) :
                    markets[j].outcomePrices.k = "jsonnull"

\* C4: without an explicit token id the resolved index is a position of the built
\* list: 0 for an absent, malformed or negative outcomeIndex, the last position
\* for one beyond the end; whether the request succeeds does not depend on it.
C4_IndexAlwaysClamped ==
    (/\ pc \in {"clob", "done"}
     /\ req.type = "prices"
     /\ gamma.k = "events"
     /\ Len(markets) > 0
     /\ ~Truthy(req.tokenId)) =>
        IF BuilderFails THEN res.status = 500
        ELSE /\ resolvedIndex \in 0..(Len(outcomes) - 1)
             /\ resolvedIndex = ExpectedIndex(req.outcomeIndex, Len(outcomes))
             /\ pc = "done" => res.status = 200 /\ res.outcomeIndex = resolvedIndex

\* outcomeIndex=999 on a 3-outcome event resolves to 2
C4_Witness ==
    /\ pc = "done"
    /\ req.outcomeIndex = Num(999)
    /\ req.tokenId = Null
    /\ Len(outcomes) = 3
    /\ resolvedIndex = 2
    /\ res.status = 200

YesLabels == {Yes, <<"y", "e", "s">>, <<" ", "Y", "E", "S", " ">>}
NoLabels == {No, NoPadded, <<"n", "o">>}

\* the first 1-based position of L holding a label of S
FirstIn(L, S) == CHOOSE i \in 1..Len(L) : L[i] \in S /\ \A k \in 1..(i - 1) : L[k] \notin S

\* C5: in the binary path, when a Market's labels hold a "yes" and a "no" (trimmed,
\* lower-cased), the yes-price and yes-token are the entries at the position of
\* "yes" and the no-price and no-token those at the position of "no", in whatever
\* order the labels come.
C5_YesNoByLabel ==
    (pc = "built" /\ model = "market-per-option") =>
        \A j \in 1..Len(markets) :
            LET m == markets[j]
                L == m.outcomes.v
            IN (/\ HoldsList(m.outcomes)
                /\ \E i \in 1..Len(L) : L[i] \in YesLabels
                /\ \E i \in 1..Len(L) : L[i] \in NoLabels) =>
                  LET y == FirstIn(L, YesLabels)
                      n == FirstIn(L, NoLabels)
                      P == m.outcomePrices
                  IN /\ (HoldsList(P) /\ y <= Len(P.v)) =>
                            outcomes[j].yesPrice = EntryPrice(P.v[y])
                     /\ (HoldsList(P) /\ n <= Len(P.v)) =>
                            outcomes[j].noPrice = EntryPrice(P.v[n])
                     /\ outcomes[j].yesTokenId = TokenAt(m.clobTokenIds, y)
                     /\ outcomes[j].tokenId = TokenAt(m.clobTokenIds, y)
                     /\ outcomes[j].noTokenId = TokenAt(m.clobTokenIds, n)

\* labels [" NO ", "Yes"] with prices [0.4, 0.6]: the yes-price is 0.6
C5_Witness ==
    /\ pc = "built"
    /\ Len(markets) = 1
    /\ markets[1].outcomes = NativeArray(<<NoPadded, Yes>>)
    /\ markets[1].outcomePrices = NativeArray(<<Num(400000), Num(600000)>>)
    /\ markets[1].clobTokenIds = NativeArray(<<"t1", "t2">>)
    /\ outcomes[1].yesPrice = 600000
    /\ outcomes[1].noPrice = 400000
    /\ outcomes[1].yesTokenId = "t2"
    /\ outcomes[1].noTokenId = "t1"

\* C6: in the multi-outcome path there is one Outcome per label, in order: index
\* i, name label i, price the decoded price at i in [0,1] (0.5 when missing or
\* malformed), token id the decoded token id at i (none when absent), no
\* secondary price and no no-token.
C6_MultiOutcomeList ==
    (pc = "built" /\ model = "single-market-multi-outcome") =>
        LET m == markets[1]
            P == m.outcomePrices
        IN /\ Len(outcomes) = Len(m.outcomes.v)
           /\ \A i \in 1..Len(outcomes) :
                 /\ outcomes[i].index = i - 1
                 /\ outcomes[i].name = m.outcomes.v[i]
                 /\ outcomes[i].yesPrice =
                        IF HoldsList(P) /\ i <= Len(P.v) THEN EntryPrice(P.v[i]) ELSE Half
                 /\ outcomes[i].tokenId = TokenAt(m.clobTokenIds, i)
                 /\ outcomes[i].noPrice = NullPrice
                 /\ outcomes[i].noTokenId = Null
                 /\ outcomes[i].kind = "multi-outcome"

\* three labels, three tokens, prices -0.2, 1.5 and an unreadable one
C6_Witness ==
    /\ pc = "built"
    /\ model = "single-market-multi-outcome"
    /\ Len(outcomes) = 3
    /\ markets[1].outcomePrices.k = "json"
    /\ outcomes[1].yesPrice = 0
    /\ outcomes[2].yesPrice = One
    /\ outcomes[3].yesPrice = Half
    /\ outcomes[3].tokenId = "t3"

\* the order-book query gave no usable values
Unusable ==
    \/ book.k # "ok"
    \/ book.bid.k # "num"
    \/ book.ask.k # "num"
    \/ (book.bid.v = 0 /\ book.ask.v = 0)

\* C7: with no usable book values (no token, an absent or non-finite bid or ask,
\* both exactly zero) the ask is the fallback mid-price and the bid 0.98 times it,
\* both in [0,1]; with a finite bid and ask not both zero the book's values are
\* the ones quoted (in [0,1], the bid lowered to 0.98 ask when not below the ask).
\* Both as returned, rounded to 4 decimals.
C7_FallbackOrBook ==
    PricesDone =>
        IF Unusable
        THEN /\ res.ask = toFixed4(Unit(fallbackMid))
             /\ res.bid = toFixed4(Unit(Mul098(fallbackMid)))
        ELSE LET b == Unit(book.bid.v)
                 a == Unit(book.ask.v)
             IN /\ res.ask = toFixed4(a)
                /\ res.bid = toFixed4(IF b < a THEN b ELSE Mul098(a))

\* best_bid = 0 and best_ask = 0 for an outcome priced 0.4
C7_Witness ==
    /\ PricesDone
    /\ book.k = "ok"
    /\ book.bid = Num(0)
    /\ book.ask = Num(0)
    /\ fallbackMid = 400000
    /\ res.ask = 400000
    /\ res.bid = 392000

\* C8: once the event fetch gave at least one Market, a failed order-book call
\* (network failure, non-success status, unparsable body, deadline abort) never
\* fails the request: the response is a success with the fallback bid and ask.
C8_BookFailureIsSwallowed ==
    (pc = "done" /\ clobCalls = 1 /\ book.k \in {"neterr", "status", "badbody", "aborted"}) =>
        /\ res.status = 200
        /\ res.success
        /\ res.kind = "prices"
        /\ res.ask = toFixed4(fallbackMid)
        /\ res.bid = toFixed4(Unit(Mul098(fallbackMid)))
        /\ ~res.usedClob

\* the order-book call answered 500 and the request is answered 200
C8_Witness ==
    /\ pc = "done"
    /\ book.k = "status"
    /\ book.status = 500
    /\ res.status = 200
    /\ fallbackMid = 600000
    /\ res.ask = 600000
    /\ res.bid = 588000

\* C9: an empty or non-list result of the event query, and an event without
\* Markets, are answered 404 with success=false, and no order-book call is made.
C9_NotFound ==
    (/\ pc = "done"
     /\ \/ gamma.k \in {"empty", "nonlist"}
        \/ (gamma.k = "events" /\ Len(gamma.markets) = 0)) =>
        /\ res.status = 404
        /\ ~res.success
        /\ clobCalls = 0

\* a prices request whose slug matches no event
C9_Witness ==
    /\ pc = "done"
    /\ req.type = "prices"
    /\ gamma.k = "empty"
    /\ res.status = 404

\* C10: a non-success status s of the event-metadata call is the status of the
\* error response, and no order-book call is made.
C10_UpstreamStatusPropagated ==
    (pc = "done" /\ gamma.k = "status") =>
        /\ res.status = gamma.status
        /\ ~res.success
        /\ clobCalls = 0

\* Gamma answers 429 to a market-data request
C10_Witness ==
    /\ pc = "done"
    /\ req.type = "market-data"
    /\ gamma.k = "status"
    /\ gamma.status = 429
    /\ res.status = 429

\* the single Market of the event carries a label list of exactly one label
OneLabelMarket ==
    /\ Len(markets) = 1
    /\ HoldsList(markets[1].outcomes)
    /\ Len(markets[1].outcomes.v) = 1

MarketDataDone == pc = "done" /\ req.type = "market-data" /\ gamma.k = "events"

PricesResolved ==
    /\ req.type = "prices"
    /\ gamma.k = "events"
    /\ Len(markets) > 0
    /\ ~BuilderFails
    /\ pc \in {"clob", "done"}

\* one of the three token ids of outcome o is t
HasToken(o, t) == t # Null /\ t \in {o.tokenId, o.yesTokenId, o.noTokenId}

\* the 0-based position of the first outcome holding token t, or none
FirstWithToken(t) ==
    LET hits == {i \in 1..Len(outcomes) : HasToken(outcomes[i], t)}
    IN IF hits = {} THEN NoIndex
       ELSE (CHOOSE i \in hits : \A j \in hits : i <= j) - 1

\* C13: a prices request with an explicit (non-empty) token id queries the order
\* book for that token id and returns it unchanged, whether or not an outcome of
\* the event holds it; the reported index is the position of the first outcome
\* whose primary, yes or no token id equals it, none when there is no such
\* outcome, and the request succeeds in both cases.
C13_ExplicitTokenUsedUnchanged ==
    (PricesResolved /\ Truthy(req.tokenId)) =>
        /\ resolvedTokenId = req.tokenId
        /\ clobCalls = 1
        /\ resolvedIndex = FirstWithToken(req.tokenId)
        /\ pc = "done" =>
              /\ res.status = 200
              /\ res.success
              /\ res.tokenId = req.tokenId
              /\ res.outcomeIndex = FirstWithToken(req.tokenId)

C13_Witness ==
    /\ PricesDone
    /\ req.tokenId = "tX"
    /\ \A i \in 1..Len(outcomes) : ~HasToken(outcomes[i], "tX")
    /\ clobCalls = 1
    /\ res.status = 200
    /\ res.tokenId = "tX"
    /\ res.outcomeIndex = NoIndex

\* the side selector spells "no" in any letter case
AsksNo(side) == Len(side) = 2 /\ side[1] \in {"n", "N"} /\ side[2] \in {"o", "O"}

\* C14: in a prices request resolved by outcome index, the resolved token is the
\* selected outcome's no-token when the side selector is "no" in any letter case
\* and that outcome has a no-token; in every other case (side absent, "yes", or
\* no no-token) it is the outcome's yes/primary token, none if it has none.
C14_NoTokenOnlyForSideNo ==
    (PricesResolved /\ ~Truthy(req.tokenId)) =>
        /\ resolvedIndex >= 0 /\ resolvedIndex < Len(outcomes)
        /\ LET o == outcomes[resolvedIndex + 1]
           IN /\ o.yesTokenId = o.tokenId
              /\ resolvedTokenId =
                    IF AsksNo(req.side) /\ o.noTokenId # Null
                    THEN o.noTokenId
                    ELSE o.yesTokenId

C14_Witness ==
    /\ PricesDone
    /\ ~Truthy(req.tokenId)
    /\ req.side = <<"N", "O">>
    /\ resolvedIndex >= 0
    /\ outcomes[resolvedIndex + 1].noTokenId # Null
    /\ outcomes[resolvedIndex + 1].yesTokenId # Null
    /\ outcomes[resolvedIndex + 1].noTokenId # outcomes[resolvedIndex + 1].yesTokenId
    /\ res.tokenId = outcomes[resolvedIndex + 1].noTokenId

\* the volume a Market stands for: its number, 0 when missing or unreadable
VolumeOf(m) == IF m.volume.k = "num" THEN m.volume.v ELSE 0

\* C15: the volume of a prices response is the single Market's volume when the
\* shape is single-market-multi-outcome, the volume of the Market at the resolved
\* index when the shape is market-per-option and an index was resolved, and 0
\* otherwise (an explicit token id that no outcome holds).
C15_PricesVolume ==
    PricesDone =>
        res.volume =
            IF model = "single-market-multi-outcome" THEN VolumeOf(markets[1])
            ELSE IF resolvedIndex # NoIndex THEN VolumeOf(markets[resolvedIndex + 1])
            ELSE 0

C15_Witness ==
    /\ PricesDone
    /\ model = "market-per-option"
    /\ Truthy(req.tokenId)
    /\ resolvedIndex = NoIndex
    /\ markets[1].volume = Num(100)
    /\ res.volume = 0

RECURSIVE SumOfVolumes(_)
SumOfVolumes(ms) == IF ms = <<>> THEN 0 ELSE VolumeOf(Head(ms)) + SumOfVolumes(Tail(ms))

\* the position of the first outcome of maximum price
FirstMaxPosition ==
    LET top == {i \in 1..Len(outcomes) :
                   \A j \in 1..Len(outcomes) : outcomes[j].yesPrice <= outcomes[i].yesPrice}
    IN CHOOSE i \in top : \A j \in top : i <= j

\* C16: in a market-data response the volume is the sum of the volumes of all the
\* event's Markets, a missing or unreadable volume counting as 0, and the mid-price
\* is the price of the outcome of maximum price in the built list, the first such
\* outcome being the one chosen when several share the maximum.
C16_TotalVolumeAndMaxPrice ==
    (MarketDataDone /\ res.status = 200) =>
        /\ res.volume = SumOfVolumes(markets)
        /\ \A j \in 1..Len(outcomes) : outcomes[j].yesPrice <= res.midPrice
        /\ \E j \in 1..Len(outcomes) : outcomes[j].yesPrice = res.midPrice
        /\ BestOutcome(outcomes, outcomes[1]) = outcomes[FirstMaxPosition]

C16_Witness ==
    /\ MarketDataDone
    /\ res.status = 200
    /\ Len(markets) = 2
    /\ markets[1].volume = Num(100)
    /\ markets[2].volume = NaN
    /\ res.volume = 100
    /\ outcomes[1].yesPrice = outcomes[2].yesPrice
    /\ res.midPrice = outcomes[1].yesPrice

\* the labels of Market m hold none of the labels of S
NoLabelIn(m, S) ==
    ~(HoldsList(m.outcomes) /\ \E i \in 1..Len(m.outcomes.v) : m.outcomes.v[i] \in S)

\* C17 (as claimed): in the binary path, when the label match for "yes" or the
\* label match for "no" fails on a Market, its yes-position is 0 and its
\* no-position is 1 when the price list has at least 2 entries, none otherwise
\* (stated for Markets whose price field is a list or decodes to none).
C17_FallbackPositions ==
    (pc = "built" /\ model = "market-per-option") =>
        \A j \in 1..Len(markets) :
            LET m == markets[j]
                P == m.outcomePrices
            IN (/\ P.k # "jsonstring"
                /\ (NoLabelIn(m, YesLabels) \/ NoLabelIn(m, NoLabels))) =>
                  /\ outcomes[j].resolvedYesIdx = 0
                  /\ outcomes[j].resolvedNoIdx =
                        IF HoldsList(P) /\ Len(P.v) >= 2 THEN 1 ELSE NoIndex

\* C18: an invocation issues the event fetch at most once and the order-book call
\* at most once; the order-book call is issued only by a prices request whose event
\* fetch has returned an event, never while the event fetch is in flight, and a
\* market-data request issues none; no call is issued again after it failed.
C18_AtMostTwoSequentialCalls ==
    /\ gammaCalls <= 1
    /\ clobCalls <= 1
    /\ clobCalls = 1 => (gammaCalls = 1 /\ gamma.k = "events" /\ req.type = "prices")
    /\ pc = "gamma" => (gammaCalls = 1 /\ clobCalls = 0)
    /\ pc = "clob" => (clobCalls = 1 /\ gamma.k = "events")
    /\ (pc = "done" /\ gamma.k \notin {"none", "events"}) => (gammaCalls = 1 /\ clobCalls = 0)
    /\ req.type = "market-data" => clobCalls = 0

C18_Witness ==
    /\ pc = "done"
    /\ gammaCalls = 1
    /\ clobCalls = 1
    /\ book.k = "neterr"
    /\ res.status = 200

\* C19: one deadline, started with the request, is pending during both upstream
\* calls; when it expires during the event fetch the request ends with an error
\* response (500) and no order-book call; when it expires during the order-book
\* call the abort is taken as a failure of that call and the request ends with a
\* 200 response carrying the fallback prices.
C19_SharedDeadline ==
    /\ pc \in {"gamma", "clob"} => timer = "pending"
    /\ (pc = "done" /\ gamma.k = "aborted") =>
          /\ timer = "fired"
          /\ res.kind = "error"
          /\ ~res.success
          /\ res.status = 500
          /\ clobCalls = 0
    /\ (pc = "done" /\ book.k = "aborted") =>
          /\ timer = "fired"
          /\ res.kind = "prices"
          /\ res.success
          /\ res.status = 200
          /\ ~res.usedClob
          /\ res.ask = toFixed4(fallbackMid)
    /\ (pc = "done" /\ timer = "fired") => (gamma.k = "aborted" \/ book.k = "aborted")

C19_Witness ==
    /\ pc = "done"
    /\ gamma.k = "events"
    /\ book.k = "aborted"
    /\ timer = "fired"
    /\ res.status = 200
    /\ res.tokenId = resolvedTokenId

\* C20 (as claimed): whatever the raw label, price and token-id fields of the
\* Markets, the builders complete and a market-data request for an event with at
\* least one Market is answered with a success response.
C20_DecodingNeverFails ==
    (MarketDataDone /\ Len(markets) > 0) => (res.status = 200 /\ res.success)

\* the failure that reaches the catch of handler, as the status it carries:
\* 0 when the request is served without one, 500 for a failure without statusCode
FailureStatus ==
    IF req.method \notin {"GET", "OPTIONS"} THEN 405
    ELSE IF req.method = "OPTIONS" \/ ~Routed(req) THEN 0
    ELSE IF gamma.k = "status" THEN gamma.status
    ELSE IF gamma.k \in {"empty", "nonlist"} THEN 404
    ELSE IF gamma.k \in {"neterr", "badbody", "aborted"} THEN 500
    ELSE IF Len(markets) = 0 THEN 404
    ELSE IF BuilderFails THEN 500
    ELSE IF Len(outcomes) = 0 /\ req.type = "market-data" THEN 422
    ELSE 0

C21_OneResponse ==
    /\ (pc = "done") <=> (res # NoResponse)
    /\ pc = "done" =>
          /\ res.success <=> (FailureStatus = 0)
          /\ res.success => res.status = 200
          /\ ~res.success => (res.kind = "error" /\ res.status = FailureStatus)
          /\ req.method \notin {"GET", "OPTIONS"} =>
                (res.status = 405 /\ gammaCalls = 0 /\ clobCalls = 0)

\* C21: every request gets exactly one response: none before the handler is done,
\* one when it is done, never replaced by a second one; a method other than GET
\* and OPTIONS is answered 405 without an upstream call, and a failure that leaves
\* fetchMarketData or fetchPrices is answered success=false with its status (404,
\* 422, the upstream status) or 500 when it carries none.
C21_ExactlyOneResponse ==
    []C21_OneResponse /\ [][res # NoResponse => res' = res]_vars

\* the TypeError of the builder, which carries no status, is answered 500
C21_Witness ==
    /\ pc = "done"
    /\ req.type = "prices"
    /\ gamma.k = "events"
    /\ Len(markets) > 0
    /\ BuilderFails
    /\ res.kind = "error"
    /\ ~res.success
    /\ res.status = 500
    /\ clobCalls = 0

\* C22: for an event with at least one Market the builder, when it returns, returns
\* a non-empty list: one binary outcome per Market in the market-per-option shape,
\* the outcome at position k having index k, and one outcome per label (more than
\* 2) in the single-market-multi-outcome shape; no market-data request is ever
\* answered 422.
C22_OutcomeListNeverEmpty ==
    /\ res.status # 422
    /\ (MarketDataDone /\ Len(markets) > 0 /\ ~BuilderFails) =>
          /\ Len(outcomes) > 0
          /\ model = "market-per-option" =>
                /\ Len(outcomes) = Len(markets)
                /\ \A k \in 1..Len(outcomes) :
                      outcomes[k].index = k - 1 /\ outcomes[k].kind = "binary"
          /\ model = "single-market-multi-outcome" =>
                /\ Len(markets) = 1
                /\ HoldsList(markets[1].outcomes)
                /\ Len(markets[1].outcomes.v) > 2
                /\ Len(outcomes) = Len(markets[1].outcomes.v)
                /\ \A k \in 1..Len(outcomes) :
                      outcomes[k].index = k - 1 /\ outcomes[k].kind = "multi-outcome"
          /\ model \in {"market-per-option", "single-market-multi-outcome"}

\* a multi-outcome Market of three labels whose first token id is missing
C22_Witness ==
    /\ MarketDataDone
    /\ model = "single-market-multi-outcome"
    /\ Len(markets[1].outcomes.v) = 3
    /\ Len(outcomes) = 3
    /\ outcomes[1].tokenId = Null
    /\ res.status = 200

\* C23 (as claimed): in a prices request for which an outcome was resolved, the
\* fallback mid-price is the outcome's no-price when the resolved token is its
\* no-token and its yes-price when the resolved token is its yes/primary token
\* (stated for outcomes whose yes- and no-token differ).
C23_MidOnTheSideOfTheToken ==
    (PricesResolved /\ resolvedIndex # NoIndex /\ resolvedTokenId # Null) =>
        LET o == outcomes[resolvedIndex + 1]
        IN o.yesTokenId # o.noTokenId =>
              /\ resolvedTokenId = o.noTokenId => fallbackMid = o.noPrice
              /\ resolvedTokenId = o.yesTokenId => fallbackMid = o.yesPrice

\* C24: once a market-data or prices request is answered, on whatever path
\* (success, 404, upstream status, abort, TypeError of the builder), its deadline
\* timer is no longer pending: it was cancelled, or it had fired and aborted the
\* call in flight; a request that starts no fetch creates no timer.
C24_NoTimerLeftPending ==
    /\ pc = "done" => timer # "pending"
    /\ (pc = "done" /\ gammaCalls = 1) => timer \in {"cleared", "fired"}
    /\ timer = "fired" => (gamma.k = "aborted" \/ book.k = "aborted")
    /\ timer = "none" <=> gammaCalls = 0

\* the builder's TypeError leaves fetchMarketData through the finally
C24_Witness ==
    /\ pc = "done"
    /\ req.type = "market-data"
    /\ gamma.k = "events"
    /\ Len(markets) > 0
    /\ BuilderFails
    /\ res.status = 500
    /\ timer = "cleared"

====
